---- MODULE Spec2Model ----
(***************************************************************************)
(* OpenInsight router monitor (src/router_monitor.py).                     *)
(*                                                                         *)
(* The model follows main()'s polling loop step by step: connect_ssh,      *)
(* harvest_data, the finally-clause that closes the session, update_excel  *)
(* and update_dashboard, the sleep, and the KeyboardInterrupt that ends    *)
(* the loop.  The workbook file on disk outlives the process; the          *)
(* workbook object a cycle works on lives in memory only.                  *)
(*                                                                         *)
(* Text is a sequence of one-character strings, so that split(), strip(),  *)
(* splitlines(), lower(), float() and int() are computed on the characters *)
(* as Python computes them, for the characters U+0001 to U+00FF and the    *)
(* ASCII digits.  Sheet titles are text as well.  A float is kept as an    *)
(* exact decimal: numerals are taken to have a value of at most 9 digits,  *)
(* which float() does not round.                                           *)
(***************************************************************************)
EXTENDS Integers, Sequences, FiniteSets, TLC

(***************************************************************************)
(* Bounds of the model.                                                    *)
(***************************************************************************)
\* number of loop iterations the model follows (over all process runs)
MaxCycles == 3

(***************************************************************************)
(* Program constants.                                                      *)
(***************************************************************************)
\* harvest_data pads and truncates top_processes to this many rank slots
TopSlots == 10
\* a line of the listing is a process row when it has this many tokens
MinTokens == 9
\* update_dashboard needs this many rows (header included) in a log sheet
MinChartRows == 2

(***************************************************************************)
(* Text: sequences of characters.                                          *)
(***************************************************************************)
Digits == <<"0", "1", "2", "3", "4", "5", "6", "7", "8", "9">>

IsDigit(c) == \E i \in 1..10 : Digits[i] = c

DigitVal(c) == (CHOOSE i \in 1..10 : Digits[i] = c) - 1

\* the characters up to U+00FF for which str.isspace() holds: space, tab,
\* newline, carriage return, form feed, U+000B, U+001C to U+001F, U+0085 and
\* U+00A0
Whitespace ==
    {" ", "\t", "\n", "\r", "\f", "", "", "", "", "", "", " "}

\* the characters up to U+00FF at which str.splitlines() ends a line
LineEnds == {"\n", "\r", "\f", "", "", "", "", ""}

\* str.split() / str.strip() without argument work on whitespace
IsSpace(c) == c \in Whitespace

RECURSIVE LStripSet(_, _)
LStripSet(s, cs) ==
    IF s # <<>> /\ Head(s) \in cs THEN LStripSet(Tail(s), cs) ELSE s

RECURSIVE RStripSet(_, _)
RStripSet(s, cs) ==
    IF s # <<>> /\ s[Len(s)] \in cs
    THEN RStripSet(SubSeq(s, 1, Len(s) - 1), cs)
    ELSE s

\* str.strip(chars): drop every leading and trailing character of the set
StripSet(s, cs) == RStripSet(LStripSet(s, cs), cs)

\* str.strip()
Strip(s) == StripSet(s, Whitespace)

\* the k-th smallest member of a set of positions
Nth(S, k) == CHOOSE x \in S : Cardinality({y \in S : y < x}) = k - 1

\* str.split(): the maximal runs of non-whitespace characters, in order
Split(s) ==
    LET starts   == {i \in 1..Len(s) : ~IsSpace(s[i]) /\ (i = 1 \/ IsSpace(s[i - 1]))}
        EndOf(i) == CHOOSE j \in i..Len(s) :
                        /\ \A k \in i..j : ~IsSpace(s[k])
                        /\ (j = Len(s) \/ IsSpace(s[j + 1]))
    IN  [k \in 1..Cardinality(starts) |-> SubSeq(s, Nth(starts, k), EndOf(Nth(starts, k)))]

\* str.splitlines(): cut at every line end, "\r\n" counting as one; a line
\* end that closes the text opens no line
SplitLines(s) ==
    LET nl      == {i \in 1..Len(s) :
                       /\ s[i] \in LineEnds
                       /\ ~(s[i] = "\r" /\ i < Len(s) /\ s[i + 1] = "\n")}
        n       == Cardinality(nl)
        Cut(i)  == IF s[i] = "\n" /\ i > 1 /\ s[i - 1] = "\r" THEN i - 2 ELSE i - 1
        From(k) == IF k = 1 THEN 1 ELSE Nth(nl, k - 1) + 1
        To(k)   == IF k <= n THEN Cut(Nth(nl, k)) ELSE Len(s)
        total   == IF (n = 0 /\ s # <<>>) \/ (n > 0 /\ Nth(nl, n) < Len(s)) THEN n + 1 ELSE n
    IN  [k \in 1..total |-> SubSeq(s, From(k), To(k))]

\* sep.join(parts)
RECURSIVE Join(_, _)
Join(parts, sep) ==
    IF parts = <<>> THEN <<>>
    ELSE IF Len(parts) = 1 THEN parts[1]
    ELSE parts[1] \o sep \o Join(Tail(parts), sep)

\* os.path.basename(p): what follows the last "/"
RECURSIVE Basename(_)
Basename(p) ==
    IF \E i \in 1..Len(p) : p[i] = "/"
    THEN Basename(SubSeq(p, (CHOOSE i \in 1..Len(p) : p[i] = "/") + 1, Len(p)))
    ELSE p

(***************************************************************************)
(* Numbers.  A float is the decimal m / 10^e with no trailing zero in its  *)
(* fraction, so that equal numerals give equal values (12.50 = 12.5 =      *)
(* 125e-1); infinity and not-a-number are floats of their own.             *)
(***************************************************************************)
Unsigned(s) == IF s # <<>> /\ Head(s) \in {"+", "-"} THEN Tail(s) ELSE s

\* digits, with single underscores between them
IsDigitPart(t) ==
    /\ t # <<>>
    /\ \A i \in 1..Len(t) : IsDigit(t[i]) \/ t[i] = "_"
    /\ IsDigit(t[1])
    /\ IsDigit(t[Len(t)])
    /\ \A i \in 1..(Len(t) - 1) : ~(t[i] = "_" /\ t[i + 1] = "_")

\* where the first of the characters cs stands in t; 0 when there is none
FirstOf(t, cs) ==
    IF \E i \in 1..Len(t) : t[i] \in cs
    THEN CHOOSE i \in 1..Len(t) : t[i] \in cs /\ \A j \in 1..(i - 1) : t[j] \notin cs
    ELSE 0

\* what stands before and after position k of t; all of t before, for k = 0
Before(t, k) == IF k = 0 THEN t ELSE SubSeq(t, 1, k - 1)

After(t, k) == IF k = 0 THEN <<>> ELSE SubSeq(t, k + 1, Len(t))

\* the parts of an unsigned numeral: mantissa, exponent, integer and fraction
Mantissa(b) == Before(b, FirstOf(b, {"e", "E"}))

Exponent(b) == After(b, FirstOf(b, {"e", "E"}))

IntPart(b) == Before(Mantissa(b), FirstOf(Mantissa(b), {"."}))

FracPart(b) == After(Mantissa(b), FirstOf(Mantissa(b), {"."}))

\* the decimal numerals float() accepts: sign, digits with at most one
\* point, before or after or between them, and an exponent
IsDecimal(s) ==
    LET b == Unsigned(s) IN
    /\ IntPart(b) = <<>> \/ IsDigitPart(IntPart(b))
    /\ FracPart(b) = <<>> \/ IsDigitPart(FracPart(b))
    /\ IntPart(b) # <<>> \/ FracPart(b) # <<>>
    /\ FirstOf(b, {"e", "E"}) = 0 \/ IsDigitPart(Unsigned(Exponent(b)))

\* the letters that have a lower case, and their lower case, in step
UpperLetters ==
    <<"A", "B", "C", "D", "E", "F", "G", "H", "I", "J", "K", "L", "M", "N",
      "O", "P", "Q", "R", "S", "T", "U", "V", "W", "X", "Y", "Z", "À", "Á",
      "Â", "Ã", "Ä", "Å", "Æ", "Ç", "È", "É", "Ê", "Ë", "Ì", "Í", "Î", "Ï",
      "Ð", "Ñ", "Ò", "Ó", "Ô", "Õ", "Ö", "Ø", "Ù", "Ú", "Û", "Ü", "Ý", "Þ">>

LowerLetters ==
    <<"a", "b", "c", "d", "e", "f", "g", "h", "i", "j", "k", "l", "m", "n",
      "o", "p", "q", "r", "s", "t", "u", "v", "w", "x", "y", "z", "à", "á",
      "â", "ã", "ä", "å", "æ", "ç", "è", "é", "ê", "ë", "ì", "í", "î", "ï",
      "ð", "ñ", "ò", "ó", "ô", "õ", "ö", "ø", "ù", "ú", "û", "ü", "ý", "þ">>

\* c.lower()
LowerOf(c) ==
    IF \E i \in 1..Len(UpperLetters) : UpperLetters[i] = c
    THEN LowerLetters[CHOOSE i \in 1..Len(UpperLetters) : UpperLetters[i] = c]
    ELSE c

\* t.lower()
Lower(t) == [i \in 1..Len(t) |-> LowerOf(t[i])]

IsInfinity(s) ==
    Lower(Unsigned(s)) \in {<<"i", "n", "f">>, <<"i", "n", "f", "i", "n", "i", "t", "y">>}

IsNan(s) == Lower(Unsigned(s)) = <<"n", "a", "n">>

\* the texts float() accepts, blanks around them stripped already
IsFloatText(s) == IsInfinity(s) \/ IsNan(s) \/ IsDecimal(s)

\* the numerals int() accepts: sign, digits
IsInteger(s) == IsDigitPart(Unsigned(s))

RECURSIVE DigitsVal(_, _)
DigitsVal(s, acc) ==
    IF s = <<>> THEN acc
    ELSE IF IsDigit(Head(s)) THEN DigitsVal(Tail(s), acc * 10 + DigitVal(Head(s)))
    ELSE DigitsVal(Tail(s), acc)

RECURSIVE Normalize(_, _)
Normalize(m, e) ==
    IF e > 0 /\ m % 10 = 0 THEN Normalize(m \div 10, e - 1) ELSE [m |-> m, e |-> e]

RECURSIVE Pow10(_)
Pow10(n) == IF n <= 0 THEN 1 ELSE 10 * Pow10(n - 1)

\* the number of digits after the point
FracLen(b) == Cardinality({i \in 1..Len(FracPart(b)) : IsDigit(FracPart(b)[i])})

\* the exponent of an unsigned numeral as a number, 0 without one
ExpVal(b) ==
    (IF Exponent(b) # <<>> /\ Head(Exponent(b)) = "-" THEN -1 ELSE 1)
        * DigitsVal(Exponent(b), 0)

(***************************************************************************)
(* Cell values.  Every value a cell, a snapshot field or a command result  *)
(* can hold is a record of one shape: None, a str, a float or an int.      *)
(***************************************************************************)
None == [k |-> "none", s |-> <<>>, m |-> 0, e |-> 0]

StrVal(t) == [k |-> "str", s |-> t, m |-> 0, e |-> 0]

FloatVal(m, e) == [k |-> "float", s |-> <<>>, m |-> m, e |-> e]

\* float("inf") and float("-inf"), by their sign
InfVal(sign) == [k |-> "float", s |-> <<"i", "n", "f">>, m |-> sign, e |-> 0]

\* float("nan")
NanVal == [k |-> "float", s |-> <<"n", "a", "n">>, m |-> 1, e |-> 0]

IntVal(m) == [k |-> "int", s |-> <<>>, m |-> m, e |-> 0]

\* Python truthiness of a value: None, "", 0 and 0.0 are false
Truthy(v) ==
    \/ v.k = "str" /\ v.s # <<>>
    \/ v.k \in {"float", "int"} /\ v.m # 0

\* the blanks float() and int() drop around a numeral: the separators
\* U+001C to U+001F are blanks to strip() and split(), not to them
NumeralBlanks == Whitespace \ {"", "", "", ""}

\* float(text): the value, or None where float() raises ValueError
ParseFloat(text) ==
    LET s  == StripSet(text, NumeralBlanks)
        b  == Unsigned(s)
        sg == IF s # <<>> /\ Head(s) = "-" THEN -1 ELSE 1
        m  == DigitsVal(Mantissa(b), 0)
        up == ExpVal(b) - FracLen(b)
        n  == IF up >= 0 THEN [m |-> m * Pow10(up), e |-> 0] ELSE Normalize(m, 0 - up)
    IN  IF IsInfinity(s) THEN InfVal(sg)
        ELSE IF IsNan(s) THEN NanVal
        ELSE IF IsDecimal(s) THEN FloatVal(sg * n.m, n.e)
        ELSE None

\* int(text): the value, or None where int() raises ValueError
ParseInt(text) ==
    LET s == StripSet(text, NumeralBlanks) IN
    IF IsInteger(s)
    THEN IntVal((IF Head(s) = "-" THEN -1 ELSE 1) * DigitsVal(Unsigned(s), 0))
    ELSE None

(***************************************************************************)
(* exec_command: the stripped stdout of the command, or None when         *)
(* exec_command or the read raises (timeout, channel error).               *)
(* A response is [ok |-> BOOLEAN, out |-> text].                           *)
(***************************************************************************)
_exec_command(resp) == IF resp.ok THEN StrVal(Strip(resp.out)) ELSE None

(***************************************************************************)
(* harvest_data.                                                           *)
(***************************************************************************)
\* lines 81-87: first token of /proc/loadavg as a float
ParseLoad(loadavg_raw) ==
    IF Truthy(loadavg_raw)
    THEN LET parts == Split(loadavg_raw.s) IN
         IF parts = <<>> THEN None ELSE ParseFloat(parts[1])
    ELSE None

\* lines 90-96: the line count of ps as an int
ParseCount(ps_raw) ==
    IF Truthy(ps_raw) THEN ParseInt(Strip(ps_raw.s)) ELSE None

\* ParsePct without the fallback: no value when the token is no number
ParsePct_none(tok) == ParseFloat(StripSet(tok, {"%"}))

\* lines 109-116: a percent token, "%" stripped, 0.0 when it is no number
ParsePct(tok) ==
    LET v == ParseFloat(StripSet(tok, {"%"})) IN
    IF v = None THEN FloatVal(0, 0) ELSE v

\* lines 117-122: the sample of one qualifying line
Sample(parts) ==
    [name    |-> StrVal(Join(SubSeq(parts, MinTokens, Len(parts)), <<" ">>)),
     cpu_pct |-> ParsePct(parts[8]),
     mem_pct |-> ParsePct(parts[6])]

\* line 126: the empty rank slot
EmptySlot == [name |-> None, cpu_pct |-> None, mem_pct |-> None]

\* lines 106-122: one sample per line that has at least 9 tokens, in order
RECURSIVE ParseLines(_)
ParseLines(lines) ==
    IF lines = <<>> THEN <<>>
    ELSE LET parts == Split(Head(lines)) IN
         (IF Len(parts) >= MinTokens THEN <<Sample(parts)>> ELSE <<>>)
            \o ParseLines(Tail(lines))

\* PadSlots with the empty slots put first
PadSlots_front(tops) ==
    IF Len(tops) < TopSlots
    THEN [i \in 1..(TopSlots - Len(tops)) |-> EmptySlot] \o tops
    ELSE tops

\* lines 125-126: pad with empty slots up to 10 entries
PadSlots(tops) ==
    IF Len(tops) < TopSlots
    THEN tops \o [i \in 1..(TopSlots - Len(tops)) |-> EmptySlot]
    ELSE tops

\* FirstSlots without the slice: every parsed line is kept
FirstSlots_all(tops) == tops

\* line 132: top_processes[:10]
FirstSlots(tops) == SubSeq(tops, 1, IF Len(tops) < TopSlots THEN Len(tops) ELSE TopSlots)

\* lines 103-126 and 132
ParseTop(top_raw) ==
    FirstSlots(PadSlots(IF Truthy(top_raw) THEN ParseLines(SplitLines(top_raw.s)) ELSE <<>>))

\* datetime.now().strftime(...): the clock reading as text, to the second
Strftime(t) == StrVal(<<"T", Digits[((t \div 10) % 10) + 1], Digits[(t % 10) + 1]>>)

\* harvest_data that gives up the process count when the load is missing
harvest_data_coupled(resp, now) ==
    [timestamp     |-> Strftime(now),
     cpu_load      |-> ParseLoad(_exec_command(resp.load)),
     process_count |-> IF ParseLoad(_exec_command(resp.load)) = None
                       THEN None ELSE ParseCount(_exec_command(resp.ps)),
     top_processes |-> ParseTop(_exec_command(resp.top))]

\* harvest_data(ssh_client): resp holds the responses of the three commands
harvest_data(resp, now) ==
    [timestamp     |-> Strftime(now),
     cpu_load      |-> ParseLoad(_exec_command(resp.load)),
     process_count |-> ParseCount(_exec_command(resp.ps)),
     top_processes |-> ParseTop(_exec_command(resp.top))]

(***************************************************************************)
(* Workbooks.  A workbook maps its sheet names to worksheets; a worksheet  *)
(* holds rows of cell values and the charts anchored on it.  The file on   *)
(* disk is [exists, wb]: load_workbook and Workbook.save carry the sheets  *)
(* between the file and the object in memory.  Workbook.save writes the    *)
(* archive over the file part by part: a save that is cut short leaves a   *)
(* file that is no workbook.                                               *)
(***************************************************************************)
EmptyWb == [n \in {} |-> 0]

NoFile == [exists |-> FALSE, wb |-> EmptyWb]

\* the file a save leaves that was cut short: what the file held is gone,
\* what is there is a part of the new archive and no sheet can be read
Damaged == [exists |-> TRUE, wb |-> EmptyWb]

\* load_workbook can read the file: it is there and it is a whole workbook
Readable(file) == file.exists /\ file # Damaged

\* a fresh worksheet, as create_sheet returns it
NewSheet == [rows |-> <<>>, charts |-> <<>>]

sheetnames(wb) == DOMAIN wb

\* str(n) of a natural number
RECURSIVE ToText(_)
ToText(n) == IF n < 10 THEN <<Digits[n + 1]>> ELSE ToText(n \div 10) \o <<Digits[(n % 10) + 1]>>

(***************************************************************************)
(* create_sheet gives the sheet the title asked for unless a sheet has it  *)
(* already, in whatever case; then it searches all titles for the title    *)
(* asked, in whatever case and at whatever place, with the digits that     *)
(* follow it, and appends the number after the highest it found.  The      *)
(* titles the program asks for hold no comma, so no find spans two titles. *)
(***************************************************************************)
\* whether t holds value at place p, in whatever case
MatchesAt(t, p, value) ==
    /\ p + Len(value) - 1 <= Len(t)
    /\ Lower(SubSeq(t, p, p + Len(value) - 1)) = Lower(value)

\* the number of digits t holds in a row from place p on
DigitsAt(t, p) ==
    LET stops == {i \in p..Len(t) : ~IsDigit(t[i])} IN
    (IF stops = {} THEN Len(t) + 1 ELSE CHOOSE i \in stops : \A j \in stops : i <= j) - p

\* the numbers that follow value in t, the finds taken from left to right
\* from place p on and none overlapping another
RECURSIVE Counts(_, _, _)
Counts(t, p, value) ==
    IF p > Len(t) THEN {}
    ELSE IF MatchesAt(t, p, value)
    THEN LET from == p + Len(value)
             n    == DigitsAt(t, from)
         IN  (IF n > 0 THEN {DigitsVal(SubSeq(t, from, from + n - 1), 0)} ELSE {})
                \cup Counts(t, from + n, value)
    ELSE Counts(t, p + 1, value)

\* the title create_sheet gives when the one asked for is taken: the name
\* with the number after the highest one found, 1 when none was found
Numbered(wb, name) ==
    LET counts  == UNION {Counts(t, 1, name) : t \in DOMAIN wb}
        highest == IF counts = {} THEN 0 ELSE CHOOSE k \in counts : \A j \in counts : j <= k
    IN  name \o ToText(highest + 1)

\* the title of the sheet create_sheet(name) makes in wb
Title(wb, name) ==
    IF \E t \in DOMAIN wb : Lower(t) = Lower(name) THEN Numbered(wb, name) ELSE name

\* wb.create_sheet(name): a new sheet, under a title no other sheet has
create_sheet(wb, name) ==
    [n \in DOMAIN wb \cup {Title(wb, name)} |-> IF n = Title(wb, name) THEN NewSheet ELSE wb[n]]

\* wb.remove(wb[name])
remove(wb, name) == [n \in DOMAIN wb \ {name} |-> wb[n]]

\* the characters a cell takes in no text: U+0001 to U+0008, U+000B, U+000C
\* and U+000E to U+001F (and U+0000, which is no character of the model)
IllegalChars ==
    {"", "", "", "", "", "", "", "", "", "\f", "",
     "", "", "", "", "", "", "", "", "", "", "", "", "",
     "", "", "", ""}

\* Cell.check_string: the text of a value holds a character no cell takes
check_string(v) == v.k = "str" /\ \E i \in 1..Len(v.s) : v.s[i] \in IllegalChars

\* ws.append(row) raises IllegalCharacterError: a cell of the row is refused
IllegalCharacterError(row) == \E c \in 1..Len(row) : check_string(row[c])

\* ws.append(row): the row goes below the last row.  The cells are made from
\* left to right; when one is refused the call raises, with the cells made
\* before it left in the sheet
append(ws, row) ==
    IF IllegalCharacterError(row)
    THEN LET c == CHOOSE i \in 1..Len(row) :
                     check_string(row[i]) /\ \A j \in 1..(i - 1) : ~check_string(row[j])
         IN  IF c = 1 THEN ws ELSE [ws EXCEPT !.rows = Append(@, SubSeq(row, 1, c - 1))]
    ELSE [ws EXCEPT !.rows = Append(@, row)]

\* ws.max_row: 1 for a sheet without cells
max_row(ws) == IF ws.rows = <<>> THEN 1 ELSE Len(ws.rows)

\* ws.cell(row, column).value: None where no cell was written
cell(ws, r, c) ==
    IF r \in 1..Len(ws.rows) /\ c \in 1..Len(ws.rows[r]) THEN ws.rows[r][c] ELSE None

\* load_workbook(EXCEL_FILE)
load_workbook(file) == file.wb

\* wb.save(EXCEL_FILE) when the file can be written
save(wb) == [exists |-> TRUE, wb |-> wb]

\* line 154
logs_headers ==
    <<StrVal(<<"T", "i", "m", "e", "s", "t", "a", "m", "p">>),
      StrVal(<<"C", "P", "U", " ", "L", "o", "a", "d", " ", "(", "1", "-", "m", "i", "n", ")">>),
      StrVal(<<"P", "r", "o", "c", "e", "s", "s", " ", "C", "o", "u", "n", "t">>)>>

\* lines 156-157: the three headers of rank i
RankHeaders(i) ==
    <<StrVal(<<"#">> \o ToText(i) \o <<" ", "N", "a", "m", "e">>),
      StrVal(<<"#">> \o ToText(i) \o <<" ", "C", "P", "U", "%">>),
      StrVal(<<"#">> \o ToText(i) \o <<" ", "M", "E", "M", "%">>)>>

RECURSIVE RankHeadersFrom(_)
RankHeadersFrom(i) ==
    IF i > TopSlots THEN <<>> ELSE RankHeaders(i) \o RankHeadersFrom(i + 1)

\* lines 155-157
tp_headers == <<StrVal(<<"T", "i", "m", "e", "s", "t", "a", "m", "p">>)>> \o RankHeadersFrom(1)

\* the titles of the sheets, as text
LogsName == <<"L", "o", "g", "s">>

TpName == <<"T", "o", "p", " ", "P", "r", "o", "c", "e", "s", "s", "e", "s">>

DashName == <<"D", "a", "s", "h", "b", "o", "a", "r", "d">>

\* the title of the sheet _ensure_sheet(wb, name, headers) returns
EnsuredTitle(wb, name) == IF name \notin sheetnames(wb) THEN Title(wb, name) ELSE name

\* _ensure_sheet(wb, name, headers): the workbook with the sheet in it
_ensure_sheet(wb, name, headers) ==
    IF name \notin sheetnames(wb)
    THEN [create_sheet(wb, name) EXCEPT ![Title(wb, name)] = append(@, headers)]
    ELSE wb

\* lines 166-169: a new workbook, its first sheet titled Logs with the header
NewWorkbook == [n \in {LogsName} |-> append(NewSheet, logs_headers)]

\* lines 174-178: the Health Log row of a snapshot
logs_row(data_dict) == <<data_dict.timestamp, data_dict.cpu_load, data_dict.process_count>>

\* lines 184-185: name, CPU% and MEM% of every slot, in rank order
RECURSIVE SlotCells(_)
SlotCells(tops) ==
    IF tops = <<>> THEN <<>>
    ELSE <<Head(tops).name, Head(tops).cpu_pct, Head(tops).mem_pct>> \o SlotCells(Tail(tops))

\* lines 183-185: the Process Log row of a snapshot
tp_row(data_dict) == <<data_dict.timestamp>> \o SlotCells(data_dict.top_processes)

\* line 178 or line 186 raises IllegalCharacterError
AppendRaises(data_dict) ==
    IllegalCharacterError(logs_row(data_dict)) \/ IllegalCharacterError(tp_row(data_dict))

\* AppendSnapshot that writes no Process Log row when no process was listed
AppendSnapshot_sparse(wb, data_dict) ==
    LET wb1 == _ensure_sheet(wb, LogsName, logs_headers)
        wb2 == [wb1 EXCEPT ![EnsuredTitle(wb, LogsName)] = append(@, logs_row(data_dict))]
        wb3 == _ensure_sheet(wb2, TpName, tp_headers)
    IN  IF data_dict.top_processes[1].name = None
        THEN wb3
        ELSE [wb3 EXCEPT ![EnsuredTitle(wb2, TpName)] = append(@, tp_row(data_dict))]

\* lines 173-186: both appends on the opened workbook, each to the sheet
\* _ensure_sheet returned; nothing follows an append that raised
AppendSnapshot(wb, data_dict) ==
    LET wb1 == _ensure_sheet(wb, LogsName, logs_headers)
        wb2 == [wb1 EXCEPT ![EnsuredTitle(wb, LogsName)] = append(@, logs_row(data_dict))]
        wb3 == _ensure_sheet(wb2, TpName, tp_headers)
    IN  IF IllegalCharacterError(logs_row(data_dict))
        THEN wb2
        ELSE [wb3 EXCEPT ![EnsuredTitle(wb2, TpName)] = append(@, tp_row(data_dict))]

(***************************************************************************)
(* update_dashboard.                                                       *)
(***************************************************************************)
\* Reference that ends one row before the row asked for
Reference_short(sheet, col, lo, hi) ==
    [sheet |-> sheet, col |-> col, min_row |-> lo, max_row |-> hi - 1]

\* Reference(ws, min_col, min_row, max_row): one column, a range of rows
Reference(sheet, col, lo, hi) == [sheet |-> sheet, col |-> col, min_row |-> lo, max_row |-> hi]

\* chart.add_data(ref, titles_from_data=True): the first cell of the range
\* titles the series, the cells below it are its values
TitledSeries(ref) ==
    [tx  |-> [k |-> "ref", row |-> ref.min_row, v |-> <<>>],
     val |-> Reference(ref.sheet, ref.col, ref.min_row + 1, ref.max_row),
     cat |-> Reference(ref.sheet, 0, 0, 0)]

\* chart.series[-1].tx = SeriesLabel(v=label)
Relabel(series, label) == [series EXCEPT !.tx = [k |-> "v", row |-> 0, v |-> label]]

\* chart.set_categories(ref): every series of the chart gets the categories
set_categories(serieses, ref) == [i \in 1..Len(serieses) |-> [serieses[i] EXCEPT !.cat = ref]]

\* a LineChart with its title, its series and the anchor add_chart gives it
LineChart(title, serieses, anchor) == [title |-> title, series |-> serieses, anchor |-> anchor]

\* dash_ws.add_chart(chart, anchor): dash_ws is the sheet titled dash
add_chart(wb, dash, chart) == [wb EXCEPT ![dash].charts = Append(@, chart)]

\* proc_label that reads the first data row instead of the latest
proc_label_first(tp_ws, tp_max, i) ==
    LET raw == cell(tp_ws, MinChartRows, 2 + i * 3) IN
    IF Truthy(raw)
    THEN StripSet(Basename(Split(raw.s)[1]), {"{", "}", "[", "]"})
    ELSE <<"#">> \o ToText(i + 1)

\* lines 272-279: the label of rank i (0-based) from the latest row's name
proc_label(tp_ws, tp_max, i) ==
    LET raw == cell(tp_ws, tp_max, 2 + i * 3) IN
    IF Truthy(raw)
    THEN StripSet(Basename(Split(raw.s)[1]), {"{", "}", "[", "]"})
    ELSE <<"#">> \o ToText(i + 1)

\* lines 293-298 and 313-318: one relabelled series per rank, from first_col
RankSeries(tp_ws, tp_max, first_col) ==
    [j \in 1..TopSlots |->
        Relabel(TitledSeries(Reference(TpName, first_col + (j - 1) * 3, 1, tp_max)),
                proc_label(tp_ws, tp_max, j - 1))]

\* lines 217-218: the workbook with its Dashboard sheet removed
Cleared(workbook) ==
    IF DashName \in sheetnames(workbook) THEN remove(workbook, DashName) ELSE workbook

\* line 219: the title of dash_ws, the sheet create_sheet("Dashboard") makes
DashTitle(workbook) == Title(Cleared(workbook), DashName)

\* lines 216-255: the Dashboard sheet replaced, with the two Logs charts
AggregateCharts(workbook) ==
    LET logs_max   == max_row(workbook[LogsName])
        dash_ws    == DashTitle(workbook)
        cleared    == create_sheet(Cleared(workbook), DashName)
        categories == Reference(LogsName, 1, 2, logs_max)
        cpu_chart  == LineChart("CPU Load (1-min avg)",
                        set_categories(<<TitledSeries(Reference(LogsName, 2, 1, logs_max))>>,
                                       categories), "A1")
        proc_chart == LineChart("Active Process Count",
                        set_categories(<<TitledSeries(Reference(LogsName, 3, 1, logs_max))>>,
                                       categories), "A35")
    IN  add_chart(add_chart(cleared, dash_ws, cpu_chart), dash_ws, proc_chart)

\* lines 265-319: the two per-process charts, from the Process Log sheet
ProcessCharts(tp_ws) ==
    LET tp_max        == max_row(tp_ws)
        tp_categories == Reference(TpName, 1, 2, tp_max)
        cpu_pct_chart == LineChart("Top 10 Processes - CPU%",
                           set_categories(RankSeries(tp_ws, tp_max, 3), tp_categories), "A69")
        mem_pct_chart == LineChart("Top 10 Processes - MEM%",
                           set_categories(RankSeries(tp_ws, tp_max, 4), tp_categories), "A103")
    IN  <<cpu_pct_chart, mem_pct_chart>>

\* lines 299 and 319: both per-process charts added to the Dashboard sheet
AllCharts(workbook) ==
    LET charts == ProcessCharts(workbook[TpName]) IN
    add_chart(add_chart(AggregateCharts(workbook), DashTitle(workbook), charts[1]),
              DashTitle(workbook), charts[2])

\* too_few with the limit one lower: a header alone is enough
too_few_off(rows) == rows < MinChartRows - 1

\* lines 212 and 262: a sheet with fewer than 2 rows cannot be charted
too_few(rows) == rows < MinChartRows

\* update_dashboard that does nothing at all without a Process Log to chart
update_dashboard_strict(workbook) ==
    IF LogsName \notin sheetnames(workbook)
    THEN [wb |-> workbook, saves |-> FALSE]
    ELSE IF too_few(max_row(workbook[LogsName]))
    THEN [wb |-> workbook, saves |-> FALSE]
    ELSE IF TpName \notin sheetnames(workbook)
    THEN [wb |-> workbook, saves |-> FALSE]
    ELSE IF too_few(max_row(workbook[TpName]))
    THEN [wb |-> workbook, saves |-> FALSE]
    ELSE [wb |-> AllCharts(workbook), saves |-> TRUE]

\* update_dashboard(workbook) up to its save: the workbook as the call leaves
\* it in memory, and whether the call goes on to workbook.save
update_dashboard(workbook) ==
    IF LogsName \notin sheetnames(workbook)
    THEN [wb |-> workbook, saves |-> FALSE]
    ELSE IF too_few(max_row(workbook[LogsName]))
    THEN [wb |-> workbook, saves |-> FALSE]
    ELSE IF TpName \notin sheetnames(workbook)
    THEN [wb |-> AggregateCharts(workbook), saves |-> FALSE]
    ELSE IF too_few(max_row(workbook[TpName]))
    THEN [wb |-> AggregateCharts(workbook), saves |-> FALSE]
    ELSE [wb |-> AllCharts(workbook), saves |-> TRUE]

(***************************************************************************)
(* What the router answers.  A response is the outcome of one command:     *)
(* its stdout, or an error (timeout, lost channel).                        *)
(***************************************************************************)
Ok(out) == [ok |-> TRUE, out |-> out]

Failed == [ok |-> FALSE, out |-> <<>>]

\* a line of BusyBox top: PID PPID USER STAT VSZ %VSZ CPU %CPU COMMAND
ProcLine(pid, mem, cpu, cmd) ==
    Join(<<pid, <<"1">>, <<"r", "o", "o", "t">>, <<"S">>, <<"1", "5", "0", "0">>,
           mem, <<"0">>, cpu, cmd>>, <<" ">>)

\* the i-th line of a generated listing: process p<i>, CPU falling with i
GenLine(i) == ProcLine(ToText(i), <<"1", "%">>, ToText(30 - i) \o <<"%">>, <<"p">> \o ToText(i))

\* a listing of n process lines
Listing(n) == Join([i \in 1..n |-> GenLine(i)], <<"\n">>)

\* a listing with a summary line of 6 tokens between two process lines, a
\* command with arguments, a kernel thread and percents that are no numbers
MixedListing ==
    Join(<<ProcLine(<<"7">>, <<"3", ".", "2", "%">>, <<"1", "2", ".", "5", "%">>,
                    <<"d", "r", "o", "p", "b", "e", "a", "r", " ", "-", "R">>),
           <<"M", "e", "m", ":", " ", "1", "K", " ", "u", "s", "e", "d", " ", "2", "K", " ", "f", "r", "e", "e">>,
           ProcLine(<<"9">>, <<"n", "/", "a">>, <<"%">>,
                    <<"[", "k", "w", "o", "r", "k", "e", "r", "]">>)>>, <<"\n">>)

LoadOk == Ok(<<"0", ".", "1", "5", " ", "0", ".", "2", "2", " ", "0", ".", "1", "0", " ", "2", "/", "8", "0", " ", "1", "2", "3", "4", "\n">>)

LoadGarbled == Ok(<<"n", "/", "a">>)

PsOk == Ok(<<"8", "7", "\n">>)

PsGarbled == Ok(<<"p", "s", ":", " ", "n", "o", "t", " ", "f", "o", "u", "n", "d">>)

\* one process line whose command holds the control character U+001B
EscListing ==
    ProcLine(<<"2">>, <<"1", "%">>, <<"5", "%">>, <<"a", "", "b", " ", "-", "x">>)

\* length of the longest generated listing; more than the rank slots
MaxLines == 12

\* the answers a cycle of the loop can get to its three commands
CycleResponses ==
    { [load |-> LoadOk,      ps |-> PsOk,      top |-> Ok(Listing(MaxLines))],
      [load |-> LoadOk,      ps |-> PsOk,      top |-> Ok(Listing(TopSlots))],
      [load |-> Failed,      ps |-> Failed,    top |-> Failed],
      [load |-> LoadGarbled, ps |-> PsGarbled, top |-> Ok(MixedListing)],
      [load |-> Ok(<<>>),    ps |-> PsOk,      top |-> Ok(<<"\n">>)],
      [load |-> LoadOk,      ps |-> PsOk,      top |-> Ok(EscListing)] }

\* how client.connect ends: connected, or one of the exceptions caught
ConnectOutcomes == {"connected", "AuthenticationException", "OSError", "SSHException"}

(***************************************************************************)
(* State.                                                                  *)
(***************************************************************************)
VARIABLES
    pc,       \* the step main() is about to take
    cycle,    \* number of the loop iteration, also the clock reading
    ssh,      \* main's ssh: the session connect_ssh returned, 0 for None
    open,     \* the sessions that are connected and not closed
    data,     \* main's data: [some, d], the snapshot of this cycle
    wb,       \* main's wb: [some, wb], what update_excel returned
    raising,  \* a KeyboardInterrupt is propagating through the finally
    disk,     \* the workbook file EXCEL_FILE
    trace,    \* history: the steps this cycle has taken, in order
    failure,  \* history: the failures this cycle has hit
    disk0,    \* history: the file as it was when this cycle began
    saves,    \* history: number of cycles whose update_excel saved
    saved,    \* history: data rows of the two logs at the last store save
    lockedAt, \* history: the last cycle whose store save was locked, or 0
    answers,  \* history: what the router answered to the last harvest
    given,    \* history: the workbook a direct call of update_dashboard got
    args      \* the other arguments of a direct call: [name, headers]

vars == <<pc, cycle, ssh, open, data, wb, raising, disk, trace, failure, disk0,
          saves, saved, lockedAt, answers, given, args>>

NoData == [some |-> FALSE, d |-> 0]

NoWb == [some |-> FALSE, wb |-> EmptyWb]

NoAnswers == [load |-> Failed, ps |-> Failed, top |-> Failed]

NoArgs == [name |-> "", headers |-> <<>>]

Init ==
    /\ pc = "connect"
    /\ cycle = 1
    /\ ssh = 0
    /\ open = {}
    /\ data = NoData
    /\ wb = NoWb
    /\ raising = FALSE
    /\ disk = NoFile
    /\ trace = <<>>
    /\ failure = {}
    /\ disk0 = NoFile
    /\ saves = 0
    /\ saved = [logs |-> 0, tp |-> 0]
    /\ lockedAt = 0
    /\ answers = NoAnswers
    /\ given = EmptyWb
    /\ args = NoArgs

\* rows below the header of a sheet of the file; 0 without file or sheet
DataRows(file, name) ==
    IF file.exists /\ name \in sheetnames(file.wb) /\ file.wb[name].rows # <<>>
    THEN Len(file.wb[name].rows) - 1
    ELSE 0

\* the failures of a harvest: a command that errored, a field that did not parse
HarvestFailures(resp) ==
    (IF ~resp.load.ok \/ ~resp.ps.ok \/ ~resp.top.ok THEN {"timeout"} ELSE {})
    \cup (IF \/ Truthy(_exec_command(resp.load)) /\ ParseLoad(_exec_command(resp.load)) = None
             \/ Truthy(_exec_command(resp.ps)) /\ ParseCount(_exec_command(resp.ps)) = None
          THEN {"parse"} ELSE {})

(***************************************************************************)
(* main(): one action per step of the loop body.                           *)
(***************************************************************************)
\* close that leaves the session connected
close_noop(sessions, s) == sessions

\* line 349: ssh.close() takes the session out of the connected ones
close(sessions, s) == sessions \ {s}

\* lines 352-357: after the finally, the exception goes on to line 364, a
\* missing snapshot skips the cycle, a snapshot goes to update_excel
after_close(exc, snapshot) ==
    IF exc THEN "stopped"
    ELSE IF ~snapshot.some THEN "sleep"
    ELSE "excel"

\* after_excel without the test for None
after_excel_always(workbook) == "dashboard"

\* lines 358-361: update_dashboard only when update_excel returned a workbook
after_excel(workbook) == IF workbook.some THEN "dashboard" ELSE "sleep"

\* lines 162-164 and 192-194: a PermissionError is caught inside update_excel
\* and the loop goes on
on_locked == NoWb

\* save_locked that writes the workbook all the same
save_locked_writes(file, workbook) == [exists |-> TRUE, wb |-> workbook]

\* lines 192-194 and 324-325: the save raised PermissionError; the file is
\* as it was
save_locked(file, workbook) == file

\* lines 338-344: connect_ssh; without a session the cycle is skipped
Connect ==
    /\ pc = "connect"
    /\ cycle <= MaxCycles
    /\ \E outcome \in ConnectOutcomes :
         IF outcome = "connected"
         THEN /\ ssh' = cycle
              /\ open' = open \cup {cycle}
              /\ pc' = "harvest"
              /\ trace' = <<"connect">>
              /\ failure' = {}
         ELSE /\ ssh' = 0
              /\ open' = open
              /\ pc' = "sleep"
              /\ trace' = <<>>
              /\ failure' = {"connect"}
    /\ disk0' = disk
    /\ UNCHANGED <<cycle, data, wb, raising, disk, saves, saved, lockedAt, answers, given, args>>

\* line 347: harvest_data(ssh) returns the snapshot
Harvest ==
    /\ pc = "harvest"
    /\ \E resp \in CycleResponses :
         /\ data' = [some |-> TRUE, d |-> harvest_data(resp, cycle)]
         /\ failure' = failure \cup HarvestFailures(resp)
         /\ answers' = resp
    /\ raising' = FALSE
    /\ trace' = Append(trace, "extract")
    /\ pc' = "close"
    /\ UNCHANGED <<cycle, ssh, open, wb, disk, disk0, saves, saved, lockedAt, given, args>>

\* line 347: a KeyboardInterrupt reaches harvest_data while a command blocks;
\* _exec_command catches Exception only, so it leaves through the finally
HarvestInterrupted ==
    /\ pc = "harvest"
    /\ raising' = TRUE
    /\ trace' = Append(trace, "extract")
    /\ pc' = "close"
    /\ UNCHANGED <<cycle, ssh, open, data, wb, disk, failure, disk0, saves, saved,
                   lockedAt, answers, given, args>>

\* lines 348-355: the finally closes the session, then control goes on
CloseSession ==
    /\ pc = "close"
    /\ open' = close(open, ssh)
    /\ trace' = Append(trace, "disconnect")
    /\ pc' = after_close(raising, data)
    /\ raising' = FALSE
    /\ UNCHANGED <<cycle, ssh, data, wb, disk, failure, disk0, saves, saved,
                   lockedAt, answers, given, args>>

\* update_excel reaches its save at line 189: the file is absent or can be
\* read, and both appends took their rows
ReachesSave(file, data_dict) == (~file.exists \/ Readable(file)) /\ ~AppendRaises(data_dict)

\* line 357: update_excel(data).  Only a PermissionError is caught in it,
\* and main() catches KeyboardInterrupt only: a file that is no workbook
\* (line 161) and a row a cell refuses (line 186) end the program
UpdateExcel ==
    /\ pc = "excel"
    /\ \E open_locked \in BOOLEAN, save_is_locked \in BOOLEAN :
         IF disk.exists /\ open_locked
         THEN \* lines 159-164: load_workbook raised PermissionError
              /\ wb' = on_locked
              /\ disk' = disk
              /\ failure' = failure \cup {"lock_open"}
              /\ trace' = trace
              /\ pc' = after_excel(wb')
              /\ UNCHANGED <<saves, saved, lockedAt>>
         ELSE IF disk.exists /\ ~Readable(disk)
         THEN \* line 161: load_workbook raised BadZipFile
              /\ wb' = NoWb
              /\ disk' = disk
              /\ failure' = failure \cup {"bad_file"}
              /\ trace' = trace
              /\ pc' = "crashed"
              /\ UNCHANGED <<saves, saved, lockedAt>>
         ELSE IF AppendRaises(data.d)
         THEN \* line 186: tp_ws.append raised IllegalCharacterError
              /\ wb' = NoWb
              /\ disk' = disk
              /\ failure' = failure \cup {"illegal_char"}
              /\ trace' = trace
              /\ pc' = "crashed"
              /\ UNCHANGED <<saves, saved, lockedAt>>
         ELSE LET opened   == IF disk.exists THEN load_workbook(disk) ELSE NewWorkbook
                  appended == AppendSnapshot(opened, data.d)
              IN  IF save_is_locked
                  THEN \* lines 192-194
                       /\ wb' = on_locked
                       /\ disk' = save_locked(disk, appended)
                       /\ failure' = failure \cup {"lock_save"}
                       /\ trace' = Append(trace, "append")
                       /\ lockedAt' = cycle
                       /\ pc' = after_excel(wb')
                       /\ UNCHANGED <<saves, saved>>
                  ELSE \* lines 189-191 and 196
                       /\ wb' = [some |-> TRUE, wb |-> appended]
                       /\ disk' = save(appended)
                       /\ failure' = failure
                       /\ trace' = Append(trace, "persist")
                       /\ saves' = saves + 1
                       /\ saved' = [logs |-> DataRows(disk', LogsName),
                                    tp   |-> DataRows(disk', TpName)]
                       /\ pc' = after_excel(wb')
                       /\ UNCHANGED lockedAt
    /\ UNCHANGED <<cycle, ssh, open, data, raising, disk0, answers, given, args>>

\* update_dashboard(workbook) with its save, lines 321-325: the workbook in
\* memory and the file after the call, and whether the save was refused
DashboardCall(workbook, file, dash_locked) ==
    LET result == update_dashboard(workbook) IN
    [wb     |-> result.wb,
     file   |-> IF ~result.saves THEN file
                ELSE IF dash_locked THEN save_locked(file, result.wb)
                ELSE save(result.wb),
     locked |-> result.saves /\ dash_locked]

\* lines 358-359: update_dashboard(wb)
UpdateDashboard ==
    /\ pc = "dashboard"
    /\ \E dash_locked \in BOOLEAN :
         LET call == DashboardCall(wb.wb, disk, dash_locked) IN
         /\ wb' = [some |-> TRUE, wb |-> call.wb]
         /\ disk' = call.file
         /\ failure' = IF call.locked THEN failure \cup {"lock_dash"} ELSE failure
    /\ trace' = Append(trace, "derive")
    /\ pc' = "sleep"
    /\ UNCHANGED <<cycle, ssh, open, data, raising, disk0, saves, saved,
                   lockedAt, answers, given, args>>

\* lines 343, 354, 361-362: time.sleep, then the next iteration begins
Sleep ==
    /\ pc = "sleep"
    /\ pc' = "connect"
    /\ cycle' = cycle + 1
    /\ data' = NoData
    /\ wb' = NoWb
    /\ UNCHANGED <<ssh, open, raising, disk, trace, failure, disk0, saves, saved,
                   lockedAt, answers, given, args>>

\* the step at hand is up to the wb.save of line 189, which an interrupt can
\* cut short
SavingStore == pc = "excel" /\ ReachesSave(disk, data.d)

\* the step at hand is up to the workbook.save of line 322
SavingDashboard == pc = "dashboard" /\ update_dashboard(wb.wb).saves

\* lines 364-365: a KeyboardInterrupt can come between any two instructions
\* of the loop.  Outside the try/finally it ends main() at once: in
\* connect_ssh (before client.connect, or after it with the session connected
\* and not yet returned), at line 341 with the session returned and the try
\* not yet entered, in the finally before ssh.close() at line 349, at a load
\* or save of the file, in the sleep.  Nothing closes a session that is
\* connected then, and a save that was writing leaves the file cut short.
Interrupt ==
    /\ pc \in {"connect", "harvest", "close", "excel", "dashboard", "sleep"}
    /\ cycle <= MaxCycles
    /\ pc' = "stopped"
    /\ \E connected \in BOOLEAN, cut \in BOOLEAN :
         /\ open' = IF pc = "connect" /\ connected THEN open \cup {cycle} ELSE open
         /\ disk' = IF cut /\ (SavingStore \/ SavingDashboard) THEN Damaged
                                                                  ELSE disk
    /\ UNCHANGED <<cycle, ssh, data, wb, raising, trace, failure, disk0,
                   saves, saved, lockedAt, answers, given, args>>

\* the program is started again after an interrupt or an exception ended
\* it: main() begins with nothing in memory, and the end of the process has
\* dropped the connections it still held
Restart ==
    /\ pc \in {"stopped", "crashed"}
    /\ cycle < MaxCycles
    /\ pc' = "connect"
    /\ cycle' = cycle + 1
    /\ ssh' = 0
    /\ open' = {}
    /\ data' = NoData
    /\ wb' = NoWb
    /\ raising' = FALSE
    /\ UNCHANGED <<disk, trace, failure, disk0, saves, saved,
                   lockedAt, answers, given, args>>

\* the steps of the loop itself
Loop == Connect \/ Harvest \/ CloseSession \/ UpdateExcel \/ UpdateDashboard \/ Sleep

Next ==
    \/ Connect
    \/ Harvest
    \/ HarvestInterrupted
    \/ CloseSession
    \/ UpdateExcel
    \/ UpdateDashboard
    \/ Sleep
    \/ Interrupt
    \/ Restart

Spec == Init /\ [][Next]_vars

\* a step of the running program: the step at hand completes, or the
\* interrupt ends it
Step == Interrupt \/ HarvestInterrupted \/ Loop

\* no step blocks for ever: the connect and every command have a timeout of
\* 10 seconds, the sleep ends after POLL_INTERVAL, the file is read and
\* written or the attempt is refused.  Nothing forces an interrupt to come.
FairSpec == Spec /\ WF_vars(Step)

(***************************************************************************)
(* update_dashboard called on its own, on any store: the stores the Log    *)
(* Store writes (a new workbook, then one snapshot appended after the      *)
(* other), the same stores with the Process Log or the Health Log missing  *)
(* or cut down to its header, each with or without an earlier Dashboard.   *)
(***************************************************************************)
\* snapshots appended to the stores of the direct calls, at most
DashRows == 2

\* the workbook after the snapshots of the responses rs, oldest first
RECURSIVE StoreOf(_)
StoreOf(rs) ==
    IF rs = <<>> THEN NewWorkbook
    ELSE AppendSnapshot(StoreOf(SubSeq(rs, 1, Len(rs) - 1)),
                        harvest_data(rs[Len(rs)], Len(rs)))

\* the answers whose snapshot update_excel appends and saves
SavedResponses == {r \in CycleResponses : ~AppendRaises(harvest_data(r, 1))}

WrittenStores ==
    {StoreOf(rs) : rs \in UNION {[1..k -> SavedResponses] : k \in 0..DashRows}}

\* a Dashboard sheet left by an earlier regeneration
StaleDashboard == [rows |-> <<>>, charts |-> <<LineChart("stale", <<>>, "A1")>>]

HeaderOnly(ws) == [ws EXCEPT !.rows = SubSeq(@, 1, 1)]

Layouts == {"written", "no process log", "bare process log", "no health log", "bare health log"}

\* a store that never had the sheet
Without(store, name) == [n \in DOMAIN store \ {name} |-> store[n]]

Relaid(store, layout) ==
    IF layout = "no process log" THEN Without(store, TpName)
    ELSE IF layout = "bare process log"
    THEN [_ensure_sheet(store, TpName, tp_headers) EXCEPT ![TpName] = HeaderOnly(@)]
    ELSE IF layout = "no health log" THEN Without(store, LogsName)
    ELSE IF layout = "bare health log" THEN [store EXCEPT ![LogsName] = HeaderOnly(@)]
    ELSE store

WithStale(store, stale) ==
    IF stale
    THEN [n \in DOMAIN store \cup {DashName} |-> IF n = DashName THEN StaleDashboard ELSE store[n]]
    ELSE store

DashStores ==
    {WithStale(Relaid(st, layout), stale) :
        st \in WrittenStores, layout \in Layouts, stale \in BOOLEAN}

\* the workbook of a file in which the sheet titled name has been given the
\* same title in lower case, as a person who opens the report can do
Retitled(store, name) ==
    [n \in (DOMAIN store \ {name}) \cup {Lower(name)} |->
        IF n = Lower(name) THEN store[name] ELSE store[n]]

\* the stores above that hold the sheet, each with that sheet retitled
RetitledStores(name) ==
    {Retitled(st, name) : st \in {d \in DashStores : name \in DOMAIN d}}

\* the stores _ensure_sheet is called on: those above, and those in which
\* a log sheet is titled in lower case
EnsureStores == DashStores \cup RetitledStores(LogsName) \cup RetitledStores(TpName)

\* the stores update_dashboard is called on twice: those above, and those
\* whose earlier Dashboard sheet is titled in lower case
RegenStores == DashStores \cup RetitledStores(DashName)

InitDash ==
    /\ pc = "dash_call"
    /\ given \in DashStores
    /\ wb = [some |-> TRUE, wb |-> given]
    /\ disk = save(given)
    /\ disk0 = disk
    /\ cycle = 1
    /\ ssh = 0
    /\ open = {}
    /\ data = NoData
    /\ raising = FALSE
    /\ trace = <<>>
    /\ failure = {}
    /\ saves = 0
    /\ saved = [logs |-> 0, tp |-> 0]
    /\ lockedAt = 0
    /\ answers = NoAnswers
    /\ args = NoArgs

\* update_dashboard on the workbook in memory, the file free or locked: a
\* first call on the store given, a second one on what the first has left
DashDirect ==
    /\ pc \in {"dash_call", "dash_done"}
    /\ \E dash_locked \in BOOLEAN :
         LET call == DashboardCall(wb.wb, disk, dash_locked) IN
         /\ wb' = [some |-> TRUE, wb |-> call.wb]
         /\ disk' = call.file
         /\ failure' = IF call.locked THEN {"lock_dash"} ELSE {}
    /\ trace' = Append(trace, "derive")
    /\ pc' = IF pc = "dash_call" THEN "dash_done" ELSE "dash_again"
    /\ UNCHANGED <<cycle, ssh, open, data, raising, disk0, saves, saved,
                   lockedAt, answers, given, args>>

NextDash == DashDirect

SpecDash == InitDash /\ [][NextDash]_vars

\* the same two calls, on the stores of RegenStores
InitRegen ==
    /\ pc = "dash_call"
    /\ given \in RegenStores
    /\ wb = [some |-> TRUE, wb |-> given]
    /\ disk = save(given)
    /\ disk0 = disk
    /\ cycle = 1
    /\ ssh = 0
    /\ open = {}
    /\ data = NoData
    /\ raising = FALSE
    /\ trace = <<>>
    /\ failure = {}
    /\ saves = 0
    /\ saved = [logs |-> 0, tp |-> 0]
    /\ lockedAt = 0
    /\ answers = NoAnswers
    /\ args = NoArgs

SpecRegen == InitRegen /\ [][NextDash]_vars

(***************************************************************************)
(* _ensure_sheet called on its own, twice with the same name and headers,  *)
(* on the same stores and on stores with a log sheet titled in lower case: *)
(* the sheet asked for is there, under its title or in lower case, or not, *)
(* and the headers passed are those of the sheet or of the other log.      *)
(***************************************************************************)
EnsureNames == {LogsName, TpName}

EnsureHeaders == {logs_headers, tp_headers}

InitEnsure ==
    /\ pc = "ensure_call"
    /\ given \in EnsureStores
    /\ args \in [name : EnsureNames, headers : EnsureHeaders]
    /\ wb = [some |-> TRUE, wb |-> given]
    /\ disk = NoFile
    /\ disk0 = NoFile
    /\ cycle = 1
    /\ ssh = 0
    /\ open = {}
    /\ data = NoData
    /\ raising = FALSE
    /\ trace = <<>>
    /\ failure = {}
    /\ saves = 0
    /\ saved = [logs |-> 0, tp |-> 0]
    /\ lockedAt = 0
    /\ answers = NoAnswers

\* _ensure_sheet(wb, name, headers), a first and a second time
EnsureDirect ==
    /\ pc \in {"ensure_call", "ensure_once"}
    /\ wb' = [some |-> TRUE, wb |-> _ensure_sheet(wb.wb, args.name, args.headers)]
    /\ pc' = IF pc = "ensure_call" THEN "ensure_once" ELSE "ensure_twice"
    /\ UNCHANGED <<cycle, ssh, open, data, raising, disk, trace, failure, disk0,
                   saves, saved, lockedAt, answers, given, args>>

NextEnsure == EnsureDirect

SpecEnsure == InitEnsure /\ [][NextEnsure]_vars

(***************************************************************************)
(* harvest_data called on its own: every combination of an answer that is  *)
(* fine, empty, garbled or an error for each of the three commands; then   *)
(* called again where one command answers differently.                     *)
(***************************************************************************)
\* lines a to b of the generated listing
GenLines(a, b) == Join([i \in 1..(b + 1 - a) |-> GenLine(a + i - 1)], <<"\n">>)

SummaryLine == <<"M", "e", "m", ":", " ", "1", "K", " ", "u", "s", "e", "d", " ", "2", "K", " ", "f", "r", "e", "e">>

\* more process lines than slots, lines of 6 tokens among the first ten
LongMixedListing ==
    Join(<<SummaryLine, GenLines(1, 2), SummaryLine, GenLines(3, MaxLines)>>, <<"\n">>)

\* one percent of each line is a number, the other is not
OddPercents ==
    Join(<<ProcLine(<<"3">>, <<"n", "/", "a">>, <<"7", "%">>, <<"a">>),
           ProcLine(<<"4">>, <<"2", "%">>, <<"x">>, <<"/", "b", "i", "n", "/", "b", " ", "-", "c">>)>>,
         <<"\n">>)

\* lines that end in carriage return and line feed; percents written with
\* an exponent, with an underscore, as inf and as nan
CrLfListing ==
    Join(<<ProcLine(<<"5">>, <<"2", "E", "0", "%">>, <<"1", "e", "1", "%">>, <<"p", "1">>),
           ProcLine(<<"6">>, <<"n", "a", "n", "%">>, <<"1", "_", "0", "%">>, <<"p", "2">>),
           ProcLine(<<"8">>, <<"1", "e", "%">>, <<"-", "I", "n", "f", "%">>, <<"p", "3">>)>>,
         <<"\r", "\n">>) \o <<"\r", "\n">>

\* a process line with a form feed between its CPU% and its command
FormFeedLine ==
    Join(<<<<"1">>, <<"1">>, <<"r", "o", "o", "t">>, <<"S">>, <<"1", "5", "0", "0">>,
           <<"1", "%">>, <<"0">>, <<"2", "9", "%", "\f", "p", "1">>, <<"-", "x">>>>, <<" ">>)

\* the load with an exponent, the line ending in carriage return, line feed
LoadCrLf == Ok(<<"1", "5", "E", "-", "2", " ", "0", ".", "2", "2", "\r", "\n">>)

\* the count with an underscore, between a vertical tab and CR LF
PsCrLf == Ok(<<"", "8", "_", "7", "\r", "\n">>)

LoadAnswers == {LoadOk, LoadCrLf, Ok(<<" ", "\n">>), LoadGarbled, Failed}

PsAnswers == {PsOk, PsCrLf, Ok(<<>>), PsGarbled, Failed}

TopAnswers ==
    {Ok(LongMixedListing), Ok(MixedListing), Ok(OddPercents), Ok(CrLfListing),
     Ok(FormFeedLine), Ok(<<"\n">>), Ok(SummaryLine), Failed}

HarvestInputs == [load : LoadAnswers, ps : PsAnswers, top : TopAnswers]

\* the commands two sets of answers differ in
Differing(r1, r2) == {c \in {"load", "ps", "top"} : r1[c] # r2[c]}

InitHarvest ==
    /\ pc = "harvest_call"
    /\ answers \in HarvestInputs
    /\ data = NoData
    /\ cycle = 1
    /\ ssh = 1
    /\ open = {1}
    /\ wb = NoWb
    /\ raising = FALSE
    /\ disk = NoFile
    /\ disk0 = NoFile
    /\ trace = <<>>
    /\ failure = {}
    /\ saves = 0
    /\ saved = [logs |-> 0, tp |-> 0]
    /\ lockedAt = 0
    /\ given = EmptyWb
    /\ args = NoArgs

\* harvest_data(ssh_client) with the answers at hand
HarvestDirect ==
    /\ pc = "harvest_call"
    /\ data' = [some |-> TRUE, d |-> harvest_data(answers, cycle)]
    /\ failure' = HarvestFailures(answers)
    /\ trace' = <<"extract">>
    /\ pc' = "harvest_done"
    /\ UNCHANGED <<cycle, ssh, open, wb, raising, disk, disk0, saves, saved,
                   lockedAt, answers, given, args>>

\* harvest_data(ssh_client) again, within the same second, where exactly one
\* of the commands answers differently
HarvestAgain ==
    /\ pc = "harvest_done"
    /\ \E resp \in HarvestInputs :
         /\ Cardinality(Differing(answers, resp)) = 1
         /\ answers' = resp
         /\ data' = [some |-> TRUE, d |-> harvest_data(resp, cycle)]
         /\ failure' = HarvestFailures(resp)
    /\ trace' = Append(trace, "extract")
    /\ pc' = "harvest_again"
    /\ UNCHANGED <<cycle, ssh, open, wb, raising, disk, disk0, saves, saved,
                   lockedAt, given, args>>

NextHarvest == HarvestDirect \/ HarvestAgain

SpecHarvest == InitHarvest /\ [][NextHarvest]_vars

(***************************************************************************)
(* Properties.                                                             *)
(***************************************************************************)
IsPrefix(a, b) == Len(a) <= Len(b) /\ SubSeq(b, 1, Len(a)) = a

Range(f) == {f[i] : i \in DOMAIN f}

Last(q) == q[Len(q)]

LogNames == {LogsName, TpName}

\* the Dashboard sheet of a file: whether it is there, and its charts
DashOn(file) ==
    IF file.exists /\ DashName \in sheetnames(file.wb)
    THEN [present |-> TRUE, sheet |-> file.wb[DashName]]
    ELSE [present |-> FALSE, sheet |-> NewSheet]

\* C1: starting without a file, whatever failures and restarts came between,
\* the Health Log and the Process Log on disk each hold their header and
\* exactly as many data rows as there were cycles whose update_excel saved.
C1_OneRowPerSavedCycle ==
    /\ DataRows(disk, LogsName) = saves
    /\ DataRows(disk, TpName) = saves
    /\ ~disk.exists => saves = 0
    /\ disk.exists =>
         /\ LogNames \subseteq sheetnames(disk.wb)
         /\ Len(disk.wb[LogsName].rows) = saves + 1
         /\ Len(disk.wb[TpName].rows) = saves + 1

\* C2: history is never rewritten: in every step, each log sheet of the file
\* (header and data rows, in order) is a prefix of the same sheet after the
\* step, and of the sheet in the workbook update_excel or update_dashboard
\* leaves in memory.
C2_HistoryIsPrefix ==
    [][\A n \in LogNames :
          (disk.exists /\ n \in sheetnames(disk.wb)) =>
             /\ disk'.exists
             /\ n \in sheetnames(disk'.wb)
             /\ IsPrefix(disk.wb[n].rows, disk'.wb[n].rows)
             /\ wb'.some =>
                  /\ n \in sheetnames(wb'.wb)
                  /\ IsPrefix(disk.wb[n].rows, wb'.wb[n].rows)]_vars

\* C3: when the save of update_excel is refused, the file is left as it was
\* and no workbook is returned; a store save that succeeds puts this cycle's
\* rows at (rows at the last successful store save + 1) in both logs.
C3_LockedSaveLeavesNoRow ==
    [][pc = "excel" =>
          /\ "lock_save" \in failure' => (disk' = disk /\ ~wb'.some)
          /\ pc' = "dashboard" =>
               /\ DataRows(disk', LogsName) = saved.logs + 1
               /\ DataRows(disk', TpName) = saved.tp + 1
               /\ Last(disk'.wb[LogsName].rows) = logs_row(data.d)
               /\ Last(disk'.wb[TpName].rows) = tp_row(data.d)]_vars

\* the cycle after a refused save has saved: its rows follow the rows saved
\* before the refused save
C3_Witness ==
    /\ pc = "dashboard"
    /\ lockedAt > 0
    /\ lockedAt < cycle
    /\ DataRows(disk0, LogsName) >= 1
    /\ DataRows(disk, LogsName) = DataRows(disk0, LogsName) + 1
    /\ DataRows(disk, TpName) = DataRows(disk0, TpName) + 1

\* C4: in a cycle whose update_excel met a locked file (at the open or at the
\* save), update_dashboard is not called, and the file, its Dashboard
\* included, is as it was when the cycle began.
C4_NoDashboardAfterLock ==
    (failure \cap {"lock_open", "lock_save"} # {}) =>
        /\ pc # "dashboard"
        /\ "derive" \notin Range(trace)
        /\ DashOn(disk) = DashOn(disk0)
        /\ disk = disk0

\* a refused save in a cycle that began with a Dashboard on disk
C4_Witness ==
    /\ "lock_save" \in failure
    /\ pc = "sleep"
    /\ DashOn(disk).present
    /\ Len(DashOn(disk).sheet.charts) = 4

\* C5: on a transport failure (the connect fails, or a command times out or
\* errors) the cycle is skipped: no row is appended to either log.
C5_SkippedOnTransportFailure ==
    (failure \cap {"connect", "timeout"} # {}) =>
        /\ "append" \notin Range(trace)
        /\ "persist" \notin Range(trace)
        /\ DataRows(disk, LogsName) = DataRows(disk0, LogsName)
        /\ DataRows(disk, TpName) = DataRows(disk0, TpName)

\* C6: whatever the top command answered, the snapshot has exactly 10 rank
\* slots, and every Process Log row, in memory and on disk, has 31 cells.
C6_TenSlots ==
    /\ data.some => Len(data.d.top_processes) = 10
    /\ data.some => Len(tp_row(data.d)) = 31
    /\ \A w \in {disk.wb, wb.wb} :
          TpName \in sheetnames(w) =>
             \A r \in 1..Len(w[TpName].rows) : Len(w[TpName].rows[r]) = 31

\* a listing of more lines than slots was harvested and its row was saved
C6_Witness ==
    /\ pc = "dashboard"
    /\ answers.top = Ok(Listing(MaxLines))
    /\ MaxLines > 10
    /\ Len(Last(disk.wb[TpName].rows)) = 31
    /\ Last(disk.wb[TpName].rows)[29] = StrVal(<<"p", "1", "0">>)

\* a store as update_excel leaves it: both logs, with as many rows each
RowAligned(w) ==
    /\ LogNames \subseteq sheetnames(w)
    /\ Len(w[TpName].rows) = Len(w[LogsName].rows)

\* C7: rows counted as the sheet counts them, header included.  A call of
\* update_dashboard on a store whose Health Log has 1 row changes nothing: no
\* Dashboard sheet is created or removed and the file is not written.  On a
\* store update_excel has brought to 2 rows or more, the call leaves a
\* Dashboard sheet with exactly 4 charts.
C7_DashboardNeedsTwoRows ==
    pc = "dash_done" =>
        /\ (LogsName \in sheetnames(given) /\ max_row(given[LogsName]) = 1) =>
             /\ wb.wb = given
             /\ disk = disk0
             /\ failure = {}
        /\ (RowAligned(given) /\ max_row(given[LogsName]) >= 2) =>
             /\ DashName \in sheetnames(wb.wb)
             /\ Len(wb.wb[DashName].charts) = 4

\* the Health Log has its header and one data row, and no Dashboard yet:
\* the call has created the Dashboard with its 4 charts
C7_Witness ==
    /\ pc = "dash_done"
    /\ RowAligned(given)
    /\ max_row(given[LogsName]) = 2
    /\ DashName \notin sheetnames(given)
    /\ DashName \in sheetnames(wb.wb)
    /\ Len(wb.wb[DashName].charts) = 4
    /\ DashOn(disk).present

\* the steps of a cycle, an append whose save was refused counted as persist
StepKinds(t) == [i \in 1..Len(t) |-> IF t[i] = "append" THEN "persist" ELSE t[i]]

\* C8, as stated: the session is released only after the append/save and the
\* Dashboard regeneration of the cycle.
C8_ReleasedAfterDerive ==
    \A i, j \in 1..Len(trace) :
        (trace[i] \in {"append", "persist", "derive"} /\ trace[j] = "disconnect") => i < j

\* C8, amended: the steps of a cycle that got a session come in the order
\* connect, extract, disconnect, persist, derive: the session is released
\* right after the extraction, before update_excel and update_dashboard run.
C8_ReleasedAfterExtract ==
    /\ IsPrefix(StepKinds(trace), <<"connect", "extract", "disconnect", "persist", "derive">>)
    /\ pc \in {"excel", "dashboard"} => (open = {} /\ Last(trace) # "connect")

\* a cycle has gone through all five steps
C8_Witness ==
    /\ pc = "sleep"
    /\ trace = <<"connect", "extract", "disconnect", "persist", "derive">>
    /\ open = {}

\* C9: at most one session is open; the session a cycle harvests with is the
\* one this cycle opened; and once control has left the harvest and its
\* finally (also by an exception) no session is open, so none is open at the
\* next connect or when the loop has stopped.
C9_SessionClosedEachCycle ==
    /\ Cardinality(open) <= 1
    /\ pc \in {"harvest", "close"} => (ssh = cycle /\ open = {cycle})
    /\ pc \in {"connect", "excel", "dashboard", "sleep", "stopped"} => open = {}

\* C10: the loop ends on an interrupt only, and a cycle that hit a failure
\* (connect, command timeout, field parse, locked open, locked store save,
\* locked dashboard save) is followed by the sleep and the begin of the
\* next cycle, unless an interrupt stops the loop first.
C10_OnlyInterruptStops ==
    /\ [][(pc' \in {"stopped", "crashed"} /\ pc \notin {"stopped", "crashed"}) =>
             (Interrupt \/ (pc = "close" /\ raising))]_vars
    /\ (failure # {} /\ pc \in {"harvest", "close", "excel", "dashboard", "sleep"})
          ~> (pc = "connect" \/ pc = "stopped")

\* the last row a chart of the sheet reaches with its categories and values
ChartReach(chart) ==
    {chart.series[i].cat.max_row : i \in 1..Len(chart.series)}
        \cup {chart.series[i].val.max_row : i \in 1..Len(chart.series)}

\* C11: in a cycle whose store save succeeded and whose dashboard save was
\* refused, the Dashboard of the file stays as it was when the cycle began
\* while the file holds this cycle's rows; the refusal leads to the sleep and
\* only an interrupt stops the loop; and after every cycle whose two saves
\* succeeded, the Dashboard of the file is the one update_dashboard builds
\* from the logs then in the file.
C11_LockedDashboardSave ==
    /\ []("lock_dash" \in failure =>
            /\ DashOn(disk) = DashOn(disk0)
            /\ \A n \in LogNames : DataRows(disk, n) = DataRows(disk0, n) + 1
            /\ pc = "sleep" =>
                 /\ Last(disk.wb[LogsName].rows) = logs_row(data.d)
                 /\ Last(disk.wb[TpName].rows) = tp_row(data.d))
    /\ []((pc = "sleep" /\ trace # <<>> /\ Last(trace) = "derive" /\ "lock_dash" \notin failure) =>
            /\ DashOn(disk).present
            /\ disk.wb = AllCharts(disk.wb)
            /\ disk.wb = wb.wb)
    /\ [][/\ (pc = "dashboard" /\ "lock_dash" \in failure') => pc' = "sleep"
          /\ ("lock_dash" \in failure /\ pc \notin {"stopped", "crashed"}
                /\ pc' \in {"stopped", "crashed"}) => Interrupt]_vars

\* a later cycle's dashboard save was refused: the file has the new rows and
\* the Dashboard of the cycle before, which ends one row short of the logs
C11_Witness ==
    /\ "lock_dash" \in failure
    /\ pc = "sleep"
    /\ cycle >= 2
    /\ DashOn(disk).present
    /\ Len(DashOn(disk).sheet.charts) = 4
    /\ DataRows(disk, LogsName) = DataRows(disk0, LogsName) + 1
    /\ \A i \in 1..4 :
          ChartReach(DashOn(disk).sheet.charts[i]) = {Len(disk.wb[LogsName].rows) - 1}

\* C12: the second of two calls of _ensure_sheet with the same name and
\* headers changes nothing.  After one call and after two, a sheet that was
\* there makes the workbook what it was before the calls, the sheet's rows
\* and its own header included, whatever headers were passed; a sheet that
\* was missing has the passed headers as its one row, and every other sheet
\* is as it was.
C12_EnsureSheetIdempotent ==
    /\ [][pc = "ensure_once" => wb'.wb = wb.wb]_vars
    /\ [](pc \in {"ensure_once", "ensure_twice"} =>
            /\ args.name \in sheetnames(wb.wb)
            /\ args.name \in sheetnames(given) => wb.wb = given
            /\ args.name \notin sheetnames(given) =>
                 /\ wb.wb[args.name].rows = <<args.headers>>
                 /\ sheetnames(wb.wb) = sheetnames(given) \cup {args.name}
                 /\ \A n \in sheetnames(given) : wb.wb[n] = given[n])

\* a store both of whose logs can be charted
Charted(w) ==
    /\ LogNames \subseteq sheetnames(w)
    /\ \A n \in LogNames : max_row(w[n]) >= MinChartRows

\* the number of series of every chart of a sheet, in the order of the charts
SeriesCounts(sheet) == [i \in 1..Len(sheet.charts) |-> Len(sheet.charts[i].series)]

\* the category ranges of the charts of a sheet
CategoryRanges(sheet) ==
    UNION {{sheet.charts[i].series[j].cat : j \in 1..Len(sheet.charts[i].series)} :
              i \in 1..Len(sheet.charts)}

\* the two logs of a workbook and nothing else
LogsOf(w) == [n \in LogNames \cap sheetnames(w) |-> w[n]]

\* C13: a second call of update_dashboard right after the first leaves the
\* workbook as the first left it.  On a store with both logs of 2 rows or
\* more, with or without an earlier Dashboard, the result has one Dashboard
\* sheet, whose charts have 1, 1, 10 and 10 series and categories from row 2
\* to the last row of their log, and which is the sheet the call builds from
\* the two logs alone; the logs are as they were.
C13_RegenerationIdempotent ==
    /\ [][pc = "dash_done" => wb'.wb = wb.wb]_vars
    /\ []((pc \in {"dash_done", "dash_again"} /\ Charted(given)) =>
            /\ sheetnames(wb.wb) = sheetnames(given) \cup {DashName}
            /\ \A t \in sheetnames(wb.wb) : Lower(t) = Lower(DashName) => t = DashName
            /\ SeriesCounts(wb.wb[DashName]) = <<1, 1, 10, 10>>
            /\ CategoryRanges(wb.wb[DashName]) =
                  {Reference(n, 1, 2, max_row(given[n])) : n \in LogNames}
            /\ wb.wb[DashName] = update_dashboard(LogsOf(given)).wb[DashName]
            /\ LogsOf(wb.wb) = LogsOf(given))

\* C14: whatever the three commands answered (fine, empty, garbled, error),
\* harvest_data returns a snapshot: a timestamp, a load that is a float or
\* None, a count that is an int or None, and 10 slots.  When harvest_data is
\* called again and only one command answers differently, the fields of the
\* two other commands are what they were.
C14_FieldsDegradeIndependently ==
    /\ [](pc \in {"harvest_done", "harvest_again"} =>
            /\ data.some
            /\ data.d.timestamp.k = "str"
            /\ data.d.cpu_load.k \in {"none", "float"}
            /\ data.d.process_count.k \in {"none", "int"}
            /\ Len(data.d.top_processes) = TopSlots)
    /\ [][pc = "harvest_done" =>
            /\ answers'.load = answers.load => data'.d.cpu_load = data.d.cpu_load
            /\ answers'.ps = answers.ps => data'.d.process_count = data.d.process_count
            /\ answers'.top = answers.top => data'.d.top_processes = data.d.top_processes]_vars

\* the load command has failed after a harvest where it answered: the count
\* and the processes are there as before, the load is missing
C14_Witness ==
    /\ pc = "harvest_again"
    /\ answers = [load |-> Failed, ps |-> PsOk, top |-> Ok(MixedListing)]
    /\ data.d.cpu_load = None
    /\ data.d.process_count = IntVal(87)
    /\ data.d.top_processes[1].name = StrVal(<<"d", "r", "o", "p", "b", "e", "a", "r", " ", "-", "R">>)
    /\ data.d.top_processes[1].cpu_pct = FloatVal(125, 1)

\* what the top command put out, as harvest_data gets it
TopText(resp) == IF resp.top.ok THEN Strip(resp.top.out) ELSE <<>>

\* the lines of a listing that have at least 9 tokens, by their position
Qualifying(lines) == {i \in 1..Len(lines) : Len(Split(lines[i])) >= MinTokens}

\* C15: slot k of top_processes holds the k-th line of the listing that has
\* at least 9 tokens, for k up to 10 and up to the number of such lines;
\* every slot after those is empty, so no empty slot comes before a filled
\* one and a line of fewer tokens takes no slot.
C15_FirstTenInOrder ==
    pc \in {"harvest_done", "harvest_again"} =>
        LET lines == SplitLines(TopText(answers))
            Q     == Qualifying(lines)
            n     == IF Cardinality(Q) < TopSlots THEN Cardinality(Q) ELSE TopSlots
            tops  == data.d.top_processes
        IN  /\ Len(tops) = TopSlots
            /\ \A k \in 1..n : tops[k] = Sample(Split(lines[Nth(Q, k)]))
            /\ \A k \in (n + 1)..TopSlots : tops[k] = EmptySlot
            /\ \A j, k \in 1..TopSlots : (j < k /\ tops[j].name = None) => tops[k].name = None

\* a listing of more process lines than slots with two lines of 6 tokens
\* among them: p3 follows p2, p10 is the last, p11 is left out
C15_Witness ==
    /\ pc = "harvest_done"
    /\ answers.top = Ok(LongMixedListing)
    /\ Cardinality(Qualifying(SplitLines(TopText(answers)))) > TopSlots
    /\ 1 \notin Qualifying(SplitLines(TopText(answers)))
    /\ data.d.top_processes[1].name = StrVal(<<"p", "1">>)
    /\ data.d.top_processes[3].name = StrVal(<<"p", "3">>)
    /\ data.d.top_processes[10].name = StrVal(<<"p", "1", "0">>)

\* a token that float() takes once its "%" are stripped
IsPercent(tok) == IsFloatText(StripSet(StripSet(tok, {"%"}), NumeralBlanks))

\* C16: in every slot the name, the CPU% and the MEM% are absent together.
\* A line of at least 9 tokens among the first 10 such lines has its slot
\* whatever its percent tokens are: a CPU% or MEM% token that is no number
\* gives 0.0 for that percent, and the name and the other percent are those
\* of the line.
C16_PercentAbsentIffNoProcess ==
    pc \in {"harvest_done", "harvest_again"} =>
        LET lines == SplitLines(TopText(answers))
            Q     == Qualifying(lines)
            n     == IF Cardinality(Q) < TopSlots THEN Cardinality(Q) ELSE TopSlots
            tops  == data.d.top_processes
        IN  /\ \A k \in 1..Len(tops) :
                  /\ tops[k].cpu_pct = None <=> tops[k].name = None
                  /\ tops[k].mem_pct = None <=> tops[k].name = None
            /\ Cardinality({k \in 1..Len(tops) : tops[k].name # None}) = n
            /\ \A k \in 1..n :
                  LET parts == Split(lines[Nth(Q, k)]) IN
                  /\ tops[k].name = StrVal(Join(SubSeq(parts, 9, Len(parts)), <<" ">>))
                  /\ tops[k].cpu_pct.k = "float"
                  /\ tops[k].mem_pct.k = "float"
                  /\ ~IsPercent(parts[8]) => tops[k].cpu_pct = FloatVal(0, 0)
                  /\ ~IsPercent(parts[6]) => tops[k].mem_pct = FloatVal(0, 0)
                  /\ IsPercent(parts[8]) => tops[k].cpu_pct = ParseFloat(StripSet(parts[8], {"%"}))
                  /\ IsPercent(parts[6]) => tops[k].mem_pct = ParseFloat(StripSet(parts[6], {"%"}))

\* two lines with one percent each that is no number: both have their slot,
\* with 0.0 for that percent and the number for the other
C16_Witness ==
    /\ pc = "harvest_done"
    /\ answers.top = Ok(OddPercents)
    /\ data.d.top_processes[1] =
          [name |-> StrVal(<<"a">>), cpu_pct |-> FloatVal(7, 0), mem_pct |-> FloatVal(0, 0)]
    /\ data.d.top_processes[2] =
          [name    |-> StrVal(<<"/", "b", "i", "n", "/", "b", " ", "-", "c">>),
           cpu_pct |-> FloatVal(0, 0),
           mem_pct |-> FloatVal(2, 0)]
    /\ data.d.top_processes[3] = EmptySlot

\* the one series of an aggregate chart: titled by the header cell of its
\* column, values and timestamps from row 2 to the last row of the Health Log
AggregateSeries(col, logs_max) ==
    [tx  |-> [k |-> "ref", row |-> 1, v |-> <<>>],
     val |-> Reference(LogsName, col, 2, logs_max),
     cat |-> Reference(LogsName, 1, 2, logs_max)]

\* a store whose Process Log is missing or has its header at most
NoProcessRows(w) == TpName \notin sheetnames(w) \/ max_row(w[TpName]) < MinChartRows

\* C17: rows counted with the header.  On every store whose Health Log has
\* 2 rows or more, the first two charts of the Dashboard the call leaves in
\* the workbook are the CPU load chart and the process count chart, each
\* with one series over the whole Health Log.  When the Process Log is
\* missing or has fewer than 2 rows these are all its charts: an earlier
\* Dashboard is replaced, nothing refers to the Process Log, and the call
\* returns before its save, so the file is not written.
C17_AggregateChartsOnly ==
    (/\ pc \in {"dash_done", "dash_again"}
     /\ LogsName \in sheetnames(given)
     /\ max_row(given[LogsName]) >= MinChartRows) =>
        LET charts   == wb.wb[DashName].charts
            logs_max == max_row(given[LogsName])
        IN  /\ DashName \in sheetnames(wb.wb)
            /\ Len(charts) >= 2
            /\ charts[1] = LineChart("CPU Load (1-min avg)", <<AggregateSeries(2, logs_max)>>, "A1")
            /\ charts[2] = LineChart("Active Process Count", <<AggregateSeries(3, logs_max)>>, "A35")
            /\ NoProcessRows(given) =>
                 /\ Len(charts) = 2
                 /\ wb.wb[DashName].rows = <<>>
                 /\ disk = disk0
                 /\ failure = {}
            /\ ~NoProcessRows(given) => Len(charts) = 4

\* a store with three Health Log rows, no Process Log and an earlier
\* Dashboard: the call has left a Dashboard of the two aggregate charts
C17_Witness ==
    /\ pc = "dash_done"
    /\ TpName \notin sheetnames(given)
    /\ {LogsName, DashName} \subseteq sheetnames(given)
    /\ max_row(given[LogsName]) = 3
    /\ given[DashName] = StaleDashboard
    /\ Len(wb.wb[DashName].charts) = 2
    /\ wb.wb[DashName].charts[2].title = "Active Process Count"
    /\ disk = disk0

\* the label a recorded name stands for: "#rank" for no name, else the first
\* token without its directories and without brackets around it
ShortLabel(name, rank) ==
    IF name.k # "str" \/ name.s = <<>>
    THEN <<"#">> \o ToText(rank)
    ELSE StripSet(Basename(Split(name.s)[1]), {"{", "}", "[", "]"})

\* the name recorded for a rank in a row of the Process Log
NameAt(w, row, rank) == cell(w[TpName], row, 3 * rank - 1)

\* the label of the series of a rank in the CPU% (3) or MEM% (4) chart
LabelIn(w, chart, rank) == w[DashName].charts[chart].series[rank].tx

\* the row that was the last one when the Dashboard of w was built
BuiltAt(w) == w[DashName].charts[3].series[1].cat.max_row

HasProcessCharts(w) == DashName \in sheetnames(w) /\ Len(w[DashName].charts) = 4

\* C18: every Dashboard with per-process charts, in memory or in the file,
\* labels the series of rank i in both charts by the name rank i has in the
\* row that was the last when it was built, "#i" without a name; right after
\* a regeneration that row is the last row of the Process Log.  From one
\* Dashboard of the file to the next, a label differs exactly when the names
\* of the two rows stand for different labels.
C18_LabelsFromLatestRow ==
    /\ [](\A w \in {disk.wb, wb.wb} :
            HasProcessCharts(w) =>
               /\ BuiltAt(w) <= max_row(w[TpName])
               /\ \A chart \in {3, 4}, i \in 1..TopSlots :
                     LabelIn(w, chart, i) =
                        [k |-> "v", row |-> 0, v |-> ShortLabel(NameAt(w, BuiltAt(w), i), i)])
    /\ []((pc = "sleep" /\ wb.some /\ HasProcessCharts(wb.wb)) =>
             BuiltAt(wb.wb) = max_row(wb.wb[TpName]))
    /\ [][(HasProcessCharts(disk.wb) /\ HasProcessCharts(disk'.wb)) =>
             \A chart \in {3, 4}, i \in 1..TopSlots :
                LabelIn(disk'.wb, chart, i) # LabelIn(disk.wb, chart, i)
                   <=> ShortLabel(NameAt(disk'.wb, BuiltAt(disk'.wb), i), i)
                          # ShortLabel(NameAt(disk.wb, BuiltAt(disk.wb), i), i)]_vars

\* the row before the last has p1 and p2 at ranks 1 and 2, the last row a
\* command with arguments, a kernel thread and no third process: the labels
\* are those of the last row
C18_Witness ==
    /\ pc = "sleep"
    /\ HasProcessCharts(disk.wb)
    /\ max_row(disk.wb[TpName]) = 3
    /\ BuiltAt(disk.wb) = 3
    /\ NameAt(disk.wb, 2, 1) = StrVal(<<"p", "1">>)
    /\ NameAt(disk.wb, 3, 1) = StrVal(<<"d", "r", "o", "p", "b", "e", "a", "r", " ", "-", "R">>)
    /\ \A chart \in {3, 4} :
          /\ LabelIn(disk.wb, chart, 1).v = <<"d", "r", "o", "p", "b", "e", "a", "r">>
          /\ LabelIn(disk.wb, chart, 2).v = <<"k", "w", "o", "r", "k", "e", "r">>
          /\ LabelIn(disk.wb, chart, 3).v = <<"#", "3">>

\* C19: starting without a file, whenever the file is a workbook it holds
\* both logs with as many rows each, the same headers as at creation, and
\* in every data row k the timestamp of the Health Log row is the timestamp
\* of the Process Log row: the one timestamp of the snapshot of the cycle
\* that wrote both.
C19_LogsRowAligned ==
    Readable(disk) =>
        /\ LogNames \subseteq sheetnames(disk.wb)
        /\ Len(disk.wb[LogsName].rows) = Len(disk.wb[TpName].rows)
        /\ disk.wb[LogsName].rows[1] = logs_headers
        /\ disk.wb[TpName].rows[1] = tp_headers
        /\ \A k \in 2..Len(disk.wb[LogsName].rows) :
              /\ disk.wb[LogsName].rows[k][1] = disk.wb[TpName].rows[k][1]
              /\ disk.wb[LogsName].rows[k][1].k = "str"

\* the first and the third cycle have saved, the second has not: row 2 of
\* both logs is of the first cycle, row 3 of both is of the third
C19_Witness ==
    /\ pc = "sleep"
    /\ cycle = 3
    /\ Readable(disk)
    /\ Len(disk.wb[LogsName].rows) = 3
    /\ Len(disk.wb[TpName].rows) = 3
    /\ \A n \in LogNames :
          /\ disk.wb[n].rows[2][1] = Strftime(1)
          /\ disk.wb[n].rows[3][1] = Strftime(3)

\* the log a chart of the Dashboard is drawn from, by its place on the sheet
ChartSource(i) == IF i <= 2 THEN LogsName ELSE TpName

\* every series of chart i of w takes its categories from column 1 and its
\* values from one column of its log, both from row 2 to the last row
CoversAllRows(w, i) ==
    LET src  == ChartSource(i)
        last == Len(w[src].rows)
    IN  \A j \in 1..Len(w[DashName].charts[i].series) :
           LET series == w[DashName].charts[i].series[j] IN
           /\ series.cat = Reference(src, 1, 2, last)
           /\ series.val.sheet = src
           /\ series.val.col \in 2..Len(w[src].rows[1])
           /\ series.val.min_row = 2
           /\ series.val.max_row = last

\* C20: when main is about to call update_dashboard, update_excel has saved
\* in this cycle and the two logs of the workbook in memory are the two logs
\* of the file, row for row.  After a cycle whose two saves succeeded, the
\* Dashboard of the file has 4 charts and every series of them runs from row
\* 2 to the last row of the Health Log or of the Process Log of the file.
C20_DashboardCoversAllRows ==
    /\ pc = "dashboard" =>
          /\ wb.some
          /\ disk.exists
          /\ Last(trace) = "persist"
          /\ LogsOf(wb.wb) = LogsOf(disk.wb)
          /\ LogNames \subseteq sheetnames(wb.wb)
    /\ (pc = "sleep" /\ trace # <<>> /\ Last(trace) = "derive" /\ "lock_dash" \notin failure) =>
          /\ HasProcessCharts(disk.wb)
          /\ LogsOf(wb.wb) = LogsOf(disk.wb)
          /\ \A i \in 1..4 : CoversAllRows(disk.wb, i)

\* the third cycle in a row has saved twice: the charts of the file run
\* from row 2 to row 4 of the logs
C20_Witness ==
    /\ pc = "sleep"
    /\ trace # <<>>
    /\ Last(trace) = "derive"
    /\ "lock_dash" \notin failure
    /\ Len(disk.wb[LogsName].rows) = 4
    /\ Len(disk.wb[TpName].rows) = 4
    /\ \A i \in 1..4 : ChartReach(disk.wb[DashName].charts[i]) = {4}
    /\ disk.wb[DashName].charts[3].series[10].val = Reference(TpName, 30, 2, 4)

====
